---------------------------- MODULE Spec2Model ----------------------------
(***************************************************************************)
(* Model of xdp::DeviceTraceOffload                                        *)
(* (src/runtime_src/xdp/profile/device/device_trace_offload.cpp).          *)
(*                                                                         *)
(* Threads: the callers of the public interface (start_offload,            *)
(* stop_offload, the destructor), the worker threads start_offload spawns  *)
(* (offload_device_continuous / train_clock_continuous) and the device,    *)
(* which produces trace data on its own.  One action is one step of one    *)
(* thread between two points where another thread can observe or change    *)
(* what it shares: status, status_lock, offload_thread.                    *)
(***************************************************************************)
EXTENDS Integers, FiniteSets, Sequences, TLC

----------------------------------------------------------------------------
(* Bounds of the model *)

\* threads that call the public interface concurrently
NumCallers == 2
\* thread objects start_offload can create; the second move-assignment onto a
\* joinable offload_thread ends the process, so no third is ever created
MaxWorkers == 2
\* the device stops producing when its word counter reaches this value
MaxWords == 288
\* packets the trace FIFO holds (GetDeviceTraceBufferSize of its properties)
FifoCapacity == 2
\* packets one readTrace call returns at most
FifoReadMax == 1
\* a thread that calls the readers itself (DriverSpec) stops reading when
\* the rollover counter has reached this value
MaxRollover == 3

(* Program constants *)

\* bytes per trace word
TRACE_PACKET_SIZE == 8
\* read_trace_s2mm skips a non-forced read of fewer bytes
TS2MM_MIN_READ_SIZE == 512
\* offload rate (bytes per second) from which the circular buffer is used;
\* set in device_trace_offload.h, here scaled to the 1024 byte buffer
m_circ_buf_min_rate == 10240

\* uint64_t arithmetic is modular; the width is scaled to 16 bits so that the
\* wrapped values stay inside TLC's integers
UIntMod == 2 ^ 16

\* The devices and constructor arguments the model starts from.  A device
\* has a trace FIFO, a data mover writing to memory (TS2MM) with or without
\* support for a circular buffer, both, or neither; with a 1024 byte buffer
\* a sleep interval of 100 ms reaches m_circ_buf_min_rate and one of 2000 ms
\* does not.
Configs ==
  {[hasFIFO |-> FALSE, hasTs2mm |-> FALSE, supportsCircBuf |-> FALSE,
    sleep_interval_ms |-> 100, trbuf_sz |-> 1024],
   [hasFIFO |-> TRUE, hasTs2mm |-> FALSE, supportsCircBuf |-> FALSE,
    sleep_interval_ms |-> 100, trbuf_sz |-> 1024],
   [hasFIFO |-> TRUE, hasTs2mm |-> TRUE, supportsCircBuf |-> FALSE,
    sleep_interval_ms |-> 100, trbuf_sz |-> 1024],
   [hasFIFO |-> FALSE, hasTs2mm |-> TRUE, supportsCircBuf |-> FALSE,
    sleep_interval_ms |-> 100, trbuf_sz |-> 0],
   [hasFIFO |-> FALSE, hasTs2mm |-> TRUE, supportsCircBuf |-> FALSE,
    sleep_interval_ms |-> 100, trbuf_sz |-> 1024],
   [hasFIFO |-> FALSE, hasTs2mm |-> TRUE, supportsCircBuf |-> TRUE,
    sleep_interval_ms |-> 0, trbuf_sz |-> 1024],
   [hasFIFO |-> FALSE, hasTs2mm |-> TRUE, supportsCircBuf |-> TRUE,
    sleep_interval_ms |-> 100, trbuf_sz |-> 1024],
   [hasFIFO |-> FALSE, hasTs2mm |-> TRUE, supportsCircBuf |-> TRUE,
    sleep_interval_ms |-> 2000, trbuf_sz |-> 1024]}
\* words the device writes in one burst
WordBursts == {32, 160}

Callers == 1 .. NumCallers
Workers == 1 .. MaxWorkers

OffloadThreadStatus == {"IDLE", "RUNNING", "STOPPING", "STOPPED"}
OffloadThreadType == {"TRACE", "CLOCK_TRAIN"}

----------------------------------------------------------------------------
VARIABLES
  \* DeviceTraceOffload members
  status,              \* OffloadThreadStatus, guarded by status_lock
  status_lock,         \* 0: free, c: held by caller c inside start_offload
  offload_thread,      \* 0: not joinable, w: the handle of worker w
  sleep_interval_ms,
  m_trbuf_alloc_sz,
  m_initialized,
  m_trbuf,             \* 0: none, 1: the handle of an allocated trace buffer
  m_trbuf_full,
  trbuf_offload_done,
  m_use_circ_buf,
  m_trbuf_offset,
  m_trbuf_sz,
  m_rollover_count,
  m_wordcount_old,
  m_force_clk_train,
  \* threads
  cpc,                 \* caller -> where it is in the call it makes
  dtor,                \* "none", "join" (stop requested), "done"
  wpc,                 \* worker -> where it is in its thread function
  wtype,               \* worker -> its OffloadThreadType
  terminated,          \* std::terminate was called
  \* the device (DeviceIntf)
  hasFIFO,
  hasTs2mm,
  supportsCircBuf,
  wordcount,           \* getWordCountTs2mm()
  fifo,                \* packets waiting in the trace FIFO
  \* what the steps made so far did to the device and the sink:
  \*   cycle      the calls of the read cycle a worker has just made
  \*   trained    the workers that have called clockTraining
  \*   tail       worker -> its reads and its read_trace_end since its last sleep
  \*   bufs       trace buffers allocated and not freed
  \*   drv        what a thread that calls read_trace_init, m_read_trace,
  \*              read_trace_end and reset_s2mm itself has seen (DriverSpec)
  obs

ctlVars == <<status, status_lock, offload_thread>>
cfgVars == <<sleep_interval_ms, m_trbuf_alloc_sz, hasFIFO, hasTs2mm, supportsCircBuf>>
rdVars == <<m_initialized, m_trbuf, m_trbuf_full, trbuf_offload_done, m_use_circ_buf,
            m_trbuf_offset, m_trbuf_sz, m_rollover_count, m_wordcount_old>>
callVars == <<cpc, dtor>>
wrkVars == <<wpc, wtype>>
devVars == <<wordcount, fifo>>

vars == <<ctlVars, cfgVars, rdVars, m_force_clk_train, callVars, wrkVars, terminated,
          devVars, obs>>

----------------------------------------------------------------------------
(* uint64_t arithmetic *)

UAdd(a, b) == (a + b) % UIntMod
USub(a, b) == (a - b) % UIntMod
UMul(a, b) == (a * b) % UIntMod

----------------------------------------------------------------------------
(* What the read cycle a worker has just made did to the device and the    *)
(* sink; the worker's next step clears it (reader = "none").  skip: the    *)
(* cycle returned at line 208, with less than TS2MM_MIN_READ_SIZE to read. *)

NoCycle ==
  [reader |-> "none", force |-> FALSE, devReads |-> 0, syncs |-> 0, syncOff |-> 0,
   syncLen |-> 0, parses |-> 0, sinkCalls |-> 0, delivered |-> 0, stop |-> FALSE,
   warn |-> FALSE, skip |-> FALSE]

(* The reader state a read cycle leaves, with the cycle's record. *)
Unread(kind, force) ==
  [full |-> m_trbuf_full, done |-> trbuf_offload_done, offset |-> m_trbuf_offset,
   sz |-> m_trbuf_sz, rollover |-> m_rollover_count, wcold |-> m_wordcount_old,
   fifo |-> fifo, cycle |-> [NoCycle EXCEPT !.reader = kind, !.force = force]]

----------------------------------------------------------------------------
(* DeviceTraceOffload::config_s2mm_reader: the window [offset, sz) to read *)
(* next, or ret = FALSE when nothing is to be read.                        *)

\* a reader that never finds the offload overrun
overrun_undetected(bytes_written, bytes_read) == FALSE

(* line 246: the offload cannot keep up with the DMA *)
offload_overrun(bytes_written, bytes_read) ==
  bytes_written > UAdd(bytes_read, m_trbuf_alloc_sz)

\* a window end that is not cut at the end of the buffer
window_end_uncut(end) == end

(* lines 274-276: the window ends at the end of the buffer at the latest *)
window_end(end) == IF end > m_trbuf_alloc_sz THEN m_trbuf_alloc_sz ELSE end

\* a wrap that is not counted
rollover_uncounted(count) == count

(* line 268: m_rollover_count++ *)
rollover(count) == UAdd(count, 1)

config_s2mm_reader(wordCount) ==
  LET bytes_written == UMul(wordCount, TRACE_PACKET_SIZE)
      bytes_read == UAdd(UMul(m_rollover_count, m_trbuf_alloc_sz), m_trbuf_sz)
      same == [ret |-> FALSE, offset |-> m_trbuf_offset, sz |-> m_trbuf_sz,
               rollover |-> m_rollover_count, done |-> trbuf_offload_done,
               stop |-> FALSE, warn |-> FALSE]
  IN  IF trbuf_offload_done
        THEN same
      ELSE IF offload_overrun(bytes_written, bytes_read)
        THEN [same EXCEPT !.offset = m_trbuf_sz, !.done = TRUE, !.stop = TRUE,
                          !.warn = TRUE]
      ELSE IF m_trbuf_sz = m_trbuf_alloc_sz /\ ~m_use_circ_buf
        THEN [same EXCEPT !.offset = m_trbuf_sz, !.done = TRUE, !.stop = TRUE]
      ELSE
        LET wrap == m_trbuf_sz = m_trbuf_alloc_sz
            roll == IF wrap THEN rollover(m_rollover_count) ELSE m_rollover_count
            off == IF wrap THEN 0 ELSE m_trbuf_sz
            end == USub(bytes_written, UMul(roll, m_trbuf_alloc_sz))
        IN  [same EXCEPT !.ret = TRUE, !.offset = off, !.rollover = roll,
                         !.sz = window_end(end)]

\* a reader that reads however little there is
threshold_ignored(bytes_written) == FALSE

(* line 205: less than 512B of trace *)
below_threshold(bytes_written) == bytes_written < TS2MM_MIN_READ_SIZE

\* a sync that takes the window's end for its length
sync_length_end(offset, sz) == sz

(* line 216: nBytes, the bytes to sync from m_trbuf_offset on *)
sync_length(offset, sz) == USub(sz, offset)

(* DeviceTraceOffload::read_trace_s2mm.  sync_ok: syncTraceBuf returns a   *)
(* host buffer.                                                            *)
read_trace_s2mm(force, sync_ok) ==
  LET u == Unread("s2mm", force)
      bytes_written == UMul(USub(wordcount, m_wordcount_old), TRACE_PACKET_SIZE)
      c == config_s2mm_reader(wordcount)
      nBytes == sync_length(c.offset, c.sz)
      v == [u EXCEPT !.wcold = wordcount, !.offset = c.offset, !.sz = c.sz,
                     !.rollover = c.rollover, !.done = c.done,
                     !.cycle.stop = c.stop, !.cycle.warn = c.warn]
  IN  IF ~force /\ below_threshold(bytes_written)
        THEN [u EXCEPT !.cycle.skip = TRUE]
      ELSE IF ~c.ret
        THEN v
      ELSE IF ~sync_ok
        THEN [v EXCEPT !.cycle.syncs = 1, !.cycle.syncOff = c.offset,
                       !.cycle.syncLen = nBytes]
      ELSE [v EXCEPT !.cycle.syncs = 1, !.cycle.syncOff = c.offset,
                     !.cycle.syncLen = nBytes, !.cycle.parses = 1,
                     !.cycle.sinkCalls = 1, !.cycle.delivered = nBytes,
                     !.full = IF c.sz = m_trbuf_alloc_sz /\ ~m_use_circ_buf
                              THEN TRUE ELSE m_trbuf_full]

(* DeviceTraceOffload::read_trace_fifo (the build with the drain loop):    *)
(* readTrace is called until it returns no packet, and every vector it     *)
(* returns, the empty one too, goes to processTraceData.                   *)
\* a FIFO reader that reads on with the latch set
fifo_reads_when_full == FALSE

(* lines 141-142: the FIFO is not used as a circular buffer *)
fifo_disabled == m_trbuf_full

(* line 162: the cycle's packets against the FIFO's capacity *)
fifo_full_strict(num_packets) == num_packets > FifoCapacity

fifo_is_full(num_packets) == num_packets >= FifoCapacity

read_trace_fifo(force) ==
  LET u == Unread("fifo", force)
      num_packets == fifo
      reads == (fifo + FifoReadMax - 1) \div FifoReadMax + 1
  IN  IF fifo_disabled
        THEN u
      ELSE [u EXCEPT !.fifo = 0, !.cycle.devReads = reads,
                     !.cycle.sinkCalls = reads, !.cycle.delivered = num_packets,
                     !.full = fifo_is_full(num_packets)]

(* m_read_trace, bound by the constructor to one of the two readers. *)
m_read_trace(force, sync_ok) ==
  IF hasFIFO THEN read_trace_fifo(force) ELSE read_trace_s2mm(force, sync_ok)

----------------------------------------------------------------------------
(* DeviceTraceOffload::reset_s2mm.  restart: resetTS2MM sets the device's  *)
(* word counter back to zero (the device decides).                         *)
reset_keeps_handle(restart) ==
  IF m_trbuf = 0
    THEN [trbuf |-> m_trbuf, wordcount |-> wordcount, frees |-> 0]
    ELSE [trbuf |-> m_trbuf, wordcount |-> IF restart THEN 0 ELSE wordcount, frees |-> 1]

reset_s2mm(restart) ==
  IF m_trbuf = 0
    THEN [trbuf |-> m_trbuf, wordcount |-> wordcount, frees |-> 0]
    ELSE [trbuf |-> 0, wordcount |-> IF restart THEN 0 ELSE wordcount, frees |-> 1]

(* DeviceTraceOffload::init_s2mm.  alloc_ok: allocTraceBuf returns a       *)
(* buffer.                                                                 *)
init_s2mm(circ_buf, alloc_ok, restart) ==
  LET r == reset_s2mm(restart)
      failed == [ret |-> FALSE, trbuf |-> r.trbuf, circ |-> m_use_circ_buf,
                 wordcount |-> r.wordcount, frees |-> r.frees, allocs |-> 0]
      m_circ_buf_cur_rate == m_trbuf_alloc_sz * (1000 \div sleep_interval_ms)
      circ == IF supportsCircBuf /\ circ_buf
                THEN IF sleep_interval_ms # 0
                       THEN IF m_circ_buf_cur_rate >= m_circ_buf_min_rate
                              THEN TRUE ELSE m_use_circ_buf
                       ELSE TRUE
                ELSE m_use_circ_buf
  IN  IF m_trbuf_alloc_sz = 0
        THEN failed
      ELSE IF ~alloc_ok
        THEN [failed EXCEPT !.trbuf = 0]
      ELSE [failed EXCEPT !.ret = TRUE, !.trbuf = 1, !.circ = circ, !.allocs = 1]

(* DeviceTraceOffload::read_trace_init *)
read_trace_init(circ_buf, alloc_ok, restart) ==
  IF hasTs2mm
    THEN init_s2mm(circ_buf, alloc_ok, restart)
    ELSE [ret |-> hasFIFO, trbuf |-> m_trbuf, circ |-> m_use_circ_buf,
          wordcount |-> wordcount, frees |-> 0, allocs |-> 0]

(* DeviceTraceOffload::read_trace_end *)
read_trace_end(restart) ==
  IF hasTs2mm
    THEN [trbuf |-> reset_s2mm(restart).trbuf,
          wordcount |-> reset_s2mm(restart).wordcount,
          frees |-> reset_s2mm(restart).frees, initialized |-> FALSE]
    ELSE [trbuf |-> m_trbuf, wordcount |-> wordcount, frees |-> 0,
          initialized |-> m_initialized]

(* DeviceTraceOffload::train_clock.  enough_time_passed: 500 ms or more    *)
(* since m_prev_clk_train_time.  trained: clockTraining was called.        *)
train_clock(enough_time_passed) ==
  [trained |-> enough_time_passed \/ m_force_clk_train, force |-> FALSE]

(* OffloadThreadStatus after stop_offload *)
stop_offload(s) == IF s = "STOPPED" THEN s ELSE "STOPPING"

(* OffloadThreadStatus after offload_finished *)
offload_finished(s) == IF s = "STOPPED" THEN s ELSE "STOPPED"

(* start_offload's test of the status, made without the lock: TRUE when    *)
(* the call goes on to start a worker                                      *)
start_accepted(s) == s # "RUNNING"

----------------------------------------------------------------------------
(* What a thread that makes the calls itself has seen:                     *)
(*   inits      its calls of read_trace_init, counted up to two            *)
(*   frees      freeTraceBuf calls of its last call                        *)
(*   allocs     allocTraceBuf calls of its last call that returned a buffer *)
(*   prefix     the sink has been given the first prefix bytes the data    *)
(*              mover wrote since the last read_trace_init, each once and  *)
(*              in order                                                   *)
(*   gap        the sink has been given a range that does not start at     *)
(*              prefix; prefix is not counted from then on                 *)
(*   syncFailed syncTraceBuf has returned no host buffer since the last    *)
(*              read_trace_init                                            *)
(*   rewound    resetTS2MM has set the device's word counter back          *)
NoHistory ==
  [inits |-> 0, frees |-> 0, allocs |-> 0, prefix |-> 0, gap |-> FALSE,
   syncFailed |-> FALSE, rewound |-> FALSE]

(* What has been observed, after the read cycle r of worker w. *)
Observed(w, r) ==
  [obs EXCEPT !.cycle = r.cycle,
              !.tail[w] = Append(@, IF r.cycle.force THEN "forced_read" ELSE "read")]

(* What has been observed, after read_trace_init returned r. *)
Initialized(r) == [obs EXCEPT !.bufs = @ - r.frees + r.allocs]

(* What has been observed, after worker w's read_trace_end returned r. *)
Finalized(w, r) ==
  [obs EXCEPT !.cycle = NoCycle, !.tail[w] = Append(@, "end"), !.bufs = @ - r.frees]

----------------------------------------------------------------------------
TypeOK ==
  /\ status \in OffloadThreadStatus
  /\ status_lock \in {0} \cup Callers
  /\ offload_thread \in {0} \cup Workers
  /\ m_initialized \in BOOLEAN
  /\ m_trbuf \in {0, 1}
  /\ m_trbuf_full \in BOOLEAN
  /\ trbuf_offload_done \in BOOLEAN
  /\ m_use_circ_buf \in BOOLEAN
  /\ m_trbuf_offset \in 0 .. UIntMod - 1
  /\ m_trbuf_sz \in 0 .. UIntMod - 1
  /\ m_rollover_count \in 0 .. UIntMod - 1
  /\ m_wordcount_old \in 0 .. MaxWords
  /\ m_force_clk_train \in BOOLEAN
  /\ cpc \in [Callers -> {"idle", "start_lock", "start_spawn", "start_assign"}]
  /\ dtor \in {"none", "join", "done"}
  /\ wpc \in [Workers -> {"unborn", "init", "loop", "train", "read", "sleep",
                          "final", "end", "finish", "failed", "exited"}]
  /\ wtype \in [Workers -> OffloadThreadType]
  /\ terminated \in BOOLEAN
  /\ hasFIFO \in BOOLEAN
  /\ hasTs2mm \in BOOLEAN
  /\ supportsCircBuf \in BOOLEAN
  /\ wordcount \in 0 .. MaxWords
  /\ fifo \in 0 .. FifoCapacity

(* The members' default initializers (device_trace_offload.h) *)
DefaultMembers ==
  /\ status = "IDLE"
  /\ m_initialized = FALSE
  /\ m_trbuf = 0
  /\ m_trbuf_full = FALSE
  /\ trbuf_offload_done = FALSE
  /\ m_use_circ_buf = FALSE
  /\ m_trbuf_offset = 0
  /\ m_trbuf_sz = 0
  /\ m_rollover_count = 0
  /\ m_wordcount_old = 0
  /\ m_force_clk_train = TRUE

(* DeviceTraceOffload::DeviceTraceOffload, for every device and pair of    *)
(* arguments of Configs; offload_thread and status_lock are default        *)
(* constructed.                                                            *)
Constructor ==
  /\ \E c \in Configs : /\ hasFIFO = c.hasFIFO
                         /\ hasTs2mm = c.hasTs2mm
                         /\ supportsCircBuf = c.supportsCircBuf
                         /\ sleep_interval_ms = c.sleep_interval_ms
                         /\ m_trbuf_alloc_sz = c.trbuf_sz
  /\ status_lock = 0
  /\ offload_thread = 0

(* The state after construction: no call in progress, no worker, a device  *)
(* that has not written anything.                                          *)
Init ==
  /\ DefaultMembers
  /\ Constructor
  /\ cpc = [c \in Callers |-> "idle"]
  /\ dtor = "none"
  /\ wpc = [w \in Workers |-> "unborn"]
  /\ wtype = [w \in Workers |-> "TRACE"]
  /\ terminated = FALSE
  /\ wordcount = 0
  /\ fifo = 0
  /\ obs = [cycle |-> NoCycle, trained |-> {}, tail |-> [w \in Workers |-> <<>>],
            bufs |-> 0, drv |-> NoHistory]

----------------------------------------------------------------------------
(* Threads *)

\* a worker's thread function has been entered and has not returned
Live(w) == wpc[w] \notin {"unborn", "failed", "exited"}
\* a worker's thread function has returned
Ended(w) == wpc[w] \in {"failed", "exited"}
\* the process runs and the object exists
Running == ~terminated /\ dtor # "done"

----------------------------------------------------------------------------
(* Callers of the public interface *)

(* start_offload, line 88: the status is read without the lock; the call   *)
(* returns when it reads RUNNING.                                          *)
StartCheck(c) ==
  /\ Running /\ dtor = "none" /\ cpc[c] = "idle"
  /\ cpc' = [cpc EXCEPT ![c] = IF start_accepted(status) THEN "start_lock" ELSE "idle"]
  /\ UNCHANGED <<ctlVars, cfgVars, rdVars, m_force_clk_train, dtor, wrkVars,
                 terminated, devVars, obs>>

(* start_offload, lines 91-92: take the lock, set the status *)
StartLock(c) ==
  /\ Running /\ cpc[c] = "start_lock" /\ status_lock = 0
  /\ status_lock' = c
  /\ status' = "RUNNING"
  /\ cpc' = [cpc EXCEPT ![c] = "start_spawn"]
  /\ UNCHANGED <<offload_thread, cfgVars, rdVars, m_force_clk_train, dtor,
                 wrkVars, terminated, devVars, obs>>

\* the thread object the next std::thread constructor creates
NextWorker == CHOOSE w \in Workers : wpc[w] = "unborn" /\ \A v \in Workers : v < w => wpc[v] # "unborn"
\* the thread object the last std::thread constructor created
LastWorker == CHOOSE w \in Workers : wpc[w] # "unborn" /\ \A v \in Workers : v > w => wpc[v] = "unborn"
\* where a thread function starts
Entry(type) == IF type = "TRACE" THEN "init" ELSE "loop"

(* start_offload, lines 94-97: std::thread's constructor starts the thread *)
(* for the type the call was given, which nothing reads before this step   *)
StartSpawn(c, type) ==
  /\ Running /\ cpc[c] = "start_spawn"
  /\ \E w \in Workers : wpc[w] = "unborn"
  /\ wpc' = [wpc EXCEPT ![NextWorker] = Entry(type)]
  /\ wtype' = [wtype EXCEPT ![NextWorker] = type]
  /\ cpc' = [cpc EXCEPT ![c] = "start_assign"]
  /\ UNCHANGED <<ctlVars, cfgVars, rdVars, m_force_clk_train, dtor,
                 terminated, devVars, obs>>

(* start_offload, lines 95/97: the move assignment to offload_thread calls *)
(* std::terminate when offload_thread is joinable; line 98 releases the    *)
(* lock.                                                                   *)
StartAssign(c) ==
  /\ Running /\ cpc[c] = "start_assign"
  /\ IF offload_thread # 0
       THEN /\ terminated' = TRUE
            /\ UNCHANGED <<ctlVars, cpc>>
       ELSE /\ offload_thread' = LastWorker
            /\ status_lock' = 0
            /\ cpc' = [cpc EXCEPT ![c] = "idle"]
            /\ UNCHANGED <<status, terminated>>
  /\ UNCHANGED <<cfgVars, rdVars, m_force_clk_train, dtor, wrkVars, devVars, obs>>

(* stop_offload, lines 102-105, called by any thread but the worker: it    *)
(* waits for the lock and runs its critical section                        *)
StopOffload ==
  /\ Running /\ dtor = "none" /\ \E c \in Callers : cpc[c] = "idle"
  /\ status_lock = 0
  /\ status' = stop_offload(status)
  /\ UNCHANGED <<status_lock, offload_thread, cfgVars, rdVars, m_force_clk_train,
                 callVars, wrkVars, terminated, devVars, obs>>

(* ~DeviceTraceOffload, line 47, once no other call is in progress *)
DtorStop ==
  /\ Running /\ dtor = "none" /\ \A c \in Callers : cpc[c] = "idle"
  /\ status_lock = 0
  /\ status' = stop_offload(status)
  /\ dtor' = "join"
  /\ UNCHANGED <<status_lock, offload_thread, cfgVars, rdVars, m_force_clk_train,
                 cpc, wrkVars, terminated, devVars, obs>>

\* a destructor that does not wait for the worker
join_skipped == TRUE

\* the destructor's wait is over: offload_thread is not joinable, or its
\* thread function has returned
join_returns == IF offload_thread = 0 THEN TRUE ELSE Ended(offload_thread)

(* ~DeviceTraceOffload, lines 48-50 *)
DtorJoin ==
  /\ Running /\ dtor = "join"
  /\ join_returns
  /\ offload_thread' = 0
  /\ dtor' = "done"
  /\ UNCHANGED <<status, status_lock, cfgVars, rdVars, m_force_clk_train, cpc,
                 wrkVars, terminated, devVars, obs>>

----------------------------------------------------------------------------
(* The worker threads *)

(* offload_device_continuous, lines 55-56 *)
WInit(w) ==
  /\ ~terminated /\ wpc[w] = "init"
  /\ IF m_initialized
       THEN /\ wpc' = [wpc EXCEPT ![w] = "loop"]
            /\ UNCHANGED <<rdVars, wordcount, obs>>
       ELSE \E alloc_ok \in BOOLEAN, restart \in BOOLEAN :
              LET r == read_trace_init(TRUE, alloc_ok, restart)
              IN  /\ m_trbuf_full' = FALSE
                  /\ trbuf_offload_done' = FALSE
                  /\ m_initialized' = r.ret
                  /\ m_trbuf' = r.trbuf
                  /\ m_use_circ_buf' = r.circ
                  /\ wordcount' = r.wordcount
                  /\ wpc' = [wpc EXCEPT ![w] = IF r.ret THEN "loop" ELSE "failed"]
                  /\ obs' = Initialized(r)
                  /\ UNCHANGED <<m_trbuf_offset, m_trbuf_sz, m_rollover_count,
                                 m_wordcount_old>>
  /\ UNCHANGED <<ctlVars, cfgVars, m_force_clk_train, callVars, wtype, terminated, fifo>>

\* a worker that leaves the loop without a last read
no_final_read(type) == IF type = "TRACE" THEN "end" ELSE "finish"

(* lines 64-65 and 77: what a thread function does when its loop is over *)
after_loop(type) == IF type = "TRACE" THEN "final" ELSE "finish"

(* should_continue, lines 58 and 72: the loop goes on while RUNNING *)
WLoop(w) ==
  /\ ~terminated /\ wpc[w] = "loop" /\ status_lock = 0
  /\ wpc' = [wpc EXCEPT ![w] = IF status = "RUNNING" THEN "train"
                                ELSE after_loop(wtype[w])]
  /\ UNCHANGED <<ctlVars, cfgVars, rdVars, m_force_clk_train, callVars, wtype,
                 terminated, devVars, obs>>

(* train_clock, lines 59 and 73 *)
WTrain(w) ==
  /\ ~terminated /\ wpc[w] = "train"
  /\ \E enough_time_passed \in BOOLEAN :
       LET r == train_clock(enough_time_passed)
       IN  /\ m_force_clk_train' = r.force
           /\ obs' = [obs EXCEPT !.trained = IF r.trained THEN @ \cup {w} ELSE @]
  /\ wpc' = [wpc EXCEPT ![w] = IF wtype[w] = "TRACE" THEN "read" ELSE "sleep"]
  /\ UNCHANGED <<ctlVars, cfgVars, rdVars, callVars, wtype, terminated, devVars>>

(* The effect of one call of m_read_trace, r being what the reader returns  *)
(* and seen what has been observed after it; the stop_offload inside it     *)
(* waits for the lock.                                                      *)
ApplyRead(r, seen) ==
  /\ r.cycle.stop => status_lock = 0
  /\ status' = IF r.cycle.stop THEN stop_offload(status) ELSE status
  /\ m_trbuf_full' = r.full
  /\ trbuf_offload_done' = r.done
  /\ m_trbuf_offset' = r.offset
  /\ m_trbuf_sz' = r.sz
  /\ m_rollover_count' = r.rollover
  /\ m_wordcount_old' = r.wcold
  /\ fifo' = r.fifo
  /\ obs' = seen
  /\ UNCHANGED <<status_lock, offload_thread, m_initialized, m_trbuf, m_use_circ_buf,
                 wordcount>>

(* m_read_trace(false), line 60 *)
WRead(w) ==
  /\ ~terminated /\ wpc[w] = "read"
  /\ \E sync_ok \in BOOLEAN :
       LET r == m_read_trace(FALSE, sync_ok) IN ApplyRead(r, Observed(w, r))
  /\ wpc' = [wpc EXCEPT ![w] = "sleep"]
  /\ UNCHANGED <<cfgVars, m_force_clk_train, callVars, wtype, terminated>>

(* sleep_for, lines 61 and 74 *)
WSleep(w) ==
  /\ ~terminated /\ wpc[w] = "sleep"
  /\ wpc' = [wpc EXCEPT ![w] = "loop"]
  /\ obs' = [obs EXCEPT !.cycle = NoCycle, !.tail[w] = <<>>]
  /\ UNCHANGED <<ctlVars, cfgVars, rdVars, m_force_clk_train, callVars, wtype,
                 terminated, devVars>>

(* the final forced read, line 65 *)
WFinal(w) ==
  /\ ~terminated /\ wpc[w] = "final"
  /\ \E sync_ok \in BOOLEAN :
       LET r == m_read_trace(TRUE, sync_ok) IN ApplyRead(r, Observed(w, r))
  /\ wpc' = [wpc EXCEPT ![w] = "end"]
  /\ UNCHANGED <<cfgVars, m_force_clk_train, callVars, wtype, terminated>>

(* read_trace_end, line 66 *)
WEnd(w) ==
  /\ ~terminated /\ wpc[w] = "end"
  /\ \E restart \in BOOLEAN :
       LET r == read_trace_end(restart)
       IN  /\ m_trbuf' = r.trbuf
           /\ m_initialized' = r.initialized
           /\ wordcount' = r.wordcount
           /\ obs' = Finalized(w, r)
  /\ wpc' = [wpc EXCEPT ![w] = "finish"]
  /\ UNCHANGED <<ctlVars, cfgVars, m_trbuf_full, trbuf_offload_done, m_use_circ_buf,
                 m_trbuf_offset, m_trbuf_sz, m_rollover_count, m_wordcount_old,
                 m_force_clk_train, callVars, wtype, terminated, fifo>>

(* offload_finished, lines 67 and 77; the thread function returns *)
WFinish(w) ==
  /\ ~terminated /\ wpc[w] = "finish" /\ status_lock = 0
  /\ status' = offload_finished(status)
  /\ wpc' = [wpc EXCEPT ![w] = "exited"]
  /\ UNCHANGED <<status_lock, offload_thread, cfgVars, rdVars, m_force_clk_train,
                 callVars, wtype, terminated, devVars, obs>>

----------------------------------------------------------------------------
(* The device *)

(* the data mover writes a burst of words to the trace buffer; its word    *)
(* counter is read by read_trace_s2mm only, the reader of a device without *)
(* a FIFO                                                                  *)
DmaWrite(n) ==
  /\ Running /\ hasTs2mm /\ ~hasFIFO /\ m_trbuf # 0
  /\ wordcount + n <= MaxWords
  /\ wordcount' = wordcount + n
  /\ UNCHANGED <<ctlVars, cfgVars, rdVars, m_force_clk_train, callVars, wrkVars,
                 terminated, fifo, obs>>

(* a packet enters the trace FIFO *)
FifoWrite ==
  /\ Running /\ hasFIFO
  /\ fifo < FifoCapacity
  /\ fifo' = fifo + 1
  /\ UNCHANGED <<ctlVars, cfgVars, rdVars, m_force_clk_train, callVars, wrkVars,
                 terminated, wordcount, obs>>

----------------------------------------------------------------------------
(* A thread that calls read_trace_init, m_read_trace, read_trace_end and   *)
(* reset_s2mm itself, one call after the other and in any order, on a      *)
(* controller on which no worker has been started.                         *)

Driven == Running /\ \A w \in Workers : wpc[w] = "unborn"

(* What has been observed, after the thread's read_trace_init returned r. *)
SeenInit(r) ==
  [obs EXCEPT !.cycle = NoCycle,
              !.bufs = @ - r.frees + r.allocs,
              !.drv = [NoHistory EXCEPT
                         !.inits = IF obs.drv.inits < 2 THEN obs.drv.inits + 1 ELSE 2,
                         !.frees = r.frees,
                         !.allocs = r.allocs,
                         !.rewound = obs.drv.rewound \/ r.wordcount < wordcount]]

(* What has been observed, after the thread's read cycle r.  The range a   *)
(* cycle hands to the sink starts rollover x allocation + offset bytes     *)
(* after the first byte the data mover wrote.                              *)
SeenRead(r) ==
  LET stream == r.cycle.reader = "s2mm" /\ r.cycle.sinkCalls = 1
      from == r.rollover * m_trbuf_alloc_sz + r.cycle.syncOff
      gap == obs.drv.gap \/ (stream /\ from # obs.drv.prefix)
  IN  [obs EXCEPT !.cycle = r.cycle,
                  !.drv.frees = 0,
                  !.drv.allocs = 0,
                  !.drv.syncFailed = @ \/ (r.cycle.syncs = 1 /\ r.cycle.parses = 0),
                  !.drv.gap = gap,
                  !.drv.prefix = IF gap THEN 0
                                 ELSE IF stream THEN from + r.cycle.delivered ELSE @]

(* What has been observed, after the thread's read_trace_end or reset_s2mm *)
(* returned r.                                                             *)
SeenFree(r) ==
  [obs EXCEPT !.cycle = NoCycle,
              !.bufs = @ - r.frees,
              !.drv.frees = r.frees,
              !.drv.allocs = 0,
              !.drv.rewound = @ \/ r.wordcount < wordcount]

(* read_trace_init(circ_buf), lines 168-182 *)
CallInit(circ_buf) ==
  /\ Driven
  /\ \E alloc_ok \in BOOLEAN, restart \in BOOLEAN :
       LET r == read_trace_init(circ_buf, alloc_ok, restart)
       IN  /\ m_trbuf_full' = FALSE
           /\ trbuf_offload_done' = FALSE
           /\ m_initialized' = r.ret
           /\ m_trbuf' = r.trbuf
           /\ m_use_circ_buf' = r.circ
           /\ wordcount' = r.wordcount
           /\ obs' = SeenInit(r)
  /\ UNCHANGED <<ctlVars, cfgVars, m_trbuf_offset, m_trbuf_sz, m_rollover_count,
                 m_wordcount_old, m_force_clk_train, callVars, wrkVars, terminated,
                 fifo>>

(* m_read_trace(force), lines 135-166 and 196-235, on an initialized       *)
(* controller                                                              *)
CallRead(force) ==
  /\ Driven /\ m_initialized
  /\ m_rollover_count < MaxRollover
  /\ \E sync_ok \in BOOLEAN :
       LET r == m_read_trace(force, sync_ok) IN ApplyRead(r, SeenRead(r))
  /\ UNCHANGED <<cfgVars, m_force_clk_train, callVars, wrkVars, terminated>>

(* read_trace_end, lines 184-194 *)
CallEnd ==
  /\ Driven
  /\ \E restart \in BOOLEAN :
       LET r == read_trace_end(restart)
       IN  /\ m_trbuf' = r.trbuf
           /\ m_initialized' = r.initialized
           /\ wordcount' = r.wordcount
           /\ obs' = SeenFree(r)
  /\ UNCHANGED <<ctlVars, cfgVars, m_trbuf_full, trbuf_offload_done, m_use_circ_buf,
                 m_trbuf_offset, m_trbuf_sz, m_rollover_count, m_wordcount_old,
                 m_force_clk_train, callVars, wrkVars, terminated, fifo>>

(* reset_s2mm, lines 327-340 *)
CallReset ==
  /\ Driven
  /\ \E restart \in BOOLEAN :
       LET r == reset_s2mm(restart)
       IN  /\ m_trbuf' = r.trbuf
           /\ wordcount' = r.wordcount
           /\ obs' = SeenFree(r)
  /\ UNCHANGED <<ctlVars, cfgVars, m_initialized, m_trbuf_full, trbuf_offload_done,
                 m_use_circ_buf, m_trbuf_offset, m_trbuf_sz, m_rollover_count,
                 m_wordcount_old, m_force_clk_train, callVars, wrkVars, terminated,
                 fifo>>

----------------------------------------------------------------------------
Caller(c) ==
  \/ StartCheck(c)
  \/ StartLock(c)
  \/ \E type \in OffloadThreadType : StartSpawn(c, type)
  \/ StartAssign(c)

Worker(w) ==
  \/ WInit(w)
  \/ WLoop(w)
  \/ WTrain(w)
  \/ WRead(w)
  \/ WSleep(w)
  \/ WFinal(w)
  \/ WEnd(w)
  \/ WFinish(w)

Next ==
  \/ \E c \in Callers : Caller(c)
  \/ StopOffload
  \/ DtorStop
  \/ DtorJoin
  \/ \E w \in Workers : Worker(w)
  \/ \E n \in WordBursts : DmaWrite(n)
  \/ FifoWrite

Spec == Init /\ [][Next]_vars

(* Every thread that can take a step eventually takes one; a call that has *)
(* been made runs to its end.  Which calls are made, and when, is up to    *)
(* the callers, and what the device writes is up to the device.            *)
Fairness ==
  /\ \A w \in Workers : WF_vars(Worker(w))
  /\ \A c \in Callers : WF_vars(StartLock(c) \/ (\E type \in OffloadThreadType : StartSpawn(c, type))
                                 \/ StartAssign(c))
  /\ WF_vars(DtorJoin)

FairSpec == Spec /\ Fairness

(* The controller driven by one thread's calls of its readers *)
DriverNext ==
  \/ \E circ_buf \in BOOLEAN : CallInit(circ_buf)
  \/ \E force \in BOOLEAN : CallRead(force)
  \/ CallEnd
  \/ CallReset
  \/ \E n \in WordBursts : DmaWrite(n)
  \/ FifoWrite

DriverSpec == Init /\ [][DriverNext]_vars

----------------------------------------------------------------------------
(* Steps the properties speak of *)

\* worker w makes a read cycle: m_read_trace(false) or the final forced read
ReadStep(w) == wpc[w] \in {"read", "final"} /\ wpc'[w] # wpc[w]
\* some worker runs read_trace_init
InitStep == \E w \in Workers : wpc[w] = "init" /\ wpc'[w] # "init" /\ ~m_initialized
\* worker w's read cycle gets as far as config_s2mm_reader (line 213)
ReachesConfig(w) ==
  \/ wpc[w] = "final"
  \/ UMul(USub(wordcount, m_wordcount_old), TRACE_PACKET_SIZE) >= TS2MM_MIN_READ_SIZE
\* the cycle recorded in obs' touched neither the device's data nor the sink
NoTransfer ==
  /\ obs'.cycle.devReads = 0
  /\ obs'.cycle.syncs = 0
  /\ obs'.cycle.parses = 0
  /\ obs'.cycle.sinkCalls = 0
  /\ obs'.cycle.delivered = 0
\* the bytes the stream reader counts as read (bytes_read, line 243): the
\* next window starts after them (line 261)
BytesRead == m_rollover_count * m_trbuf_alloc_sz + m_trbuf_sz
\* the worker threads whose thread function is running
LiveWorkers == {w \in Workers : Live(w)}
\* start_offload has created a worker
Started == \E w \in Workers : wpc[w] # "unborn"

----------------------------------------------------------------------------
(* C1: the status changes only along IDLE -> RUNNING, STOPPED -> RUNNING,  *)
(* RUNNING -> STOPPING and STOPPING -> STOPPED.                            *)
C1_StatusTransitions ==
  [][status' # status =>
       <<status, status'>> \in {<<"IDLE", "RUNNING">>, <<"STOPPED", "RUNNING">>,
                                <<"RUNNING", "STOPPING">>, <<"STOPPING", "STOPPED">>}]_vars

(* C2: at most one worker thread is live in every reachable state.         *)
C2_OneWorker == Cardinality(LiveWorkers) <= 1

(* C3: stop_offload changes the status only from RUNNING, to STOPPING, and *)
(* leaves IDLE, STOPPING and STOPPED as they are.                          *)
C3_StopFrame ==
  [][StopOffload => status' = IF status = "RUNNING" THEN "STOPPING" ELSE status]_vars

(* C4: the destructor requests stop, then returns, and when it has         *)
(* returned no worker thread is live.                                      *)
C4_DtorJoins ==
  /\ [][dtor = "none" /\ dtor' # "none" => status' \in {"STOPPING", "STOPPED"}]_vars
  /\ [](dtor = "done" => LiveWorkers = {})
  /\ (dtor = "join") ~> (dtor = "done")

C4_Witness == dtor = "done" /\ \E w \in Workers : wpc[w] = "exited"

(* C5: in a session on which start_offload was called, a status of         *)
(* STOPPING is eventually followed by STOPPED (not held against the claim: *)
(* a process ended by std::terminate, an object that has been destroyed).  *)
C5_StoppingLeadsToStopped ==
  (Started /\ status = "STOPPING") ~> (status = "STOPPED" \/ ~Running)

(* C6: when the initialization of a started trace-offload session has      *)
(* failed, the status is not RUNNING.                                      *)
C6_InitFailureNotRunning ==
  \A w \in Workers : wpc[w] = "failed" => status # "RUNNING"

(* C7: a cycle that reaches config_s2mm_reader with more bytes written     *)
(* than rollover_count x allocation + window end + allocation sets the     *)
(* overrun latch and requests stop (status STOPPING) without any transfer; *)
(* with the latch set no cycle makes a transfer; and only read_trace_init  *)
(* clears the latch.                                                       *)
C7_OverrunLatch ==
  [][/\ \A w \in Workers :
          ReadStep(w) /\ ~hasFIFO =>
            /\ ( /\ ReachesConfig(w)
                 /\ ~trbuf_offload_done
                 /\ wordcount * TRACE_PACKET_SIZE
                      > m_rollover_count * m_trbuf_alloc_sz + m_trbuf_sz
                          + m_trbuf_alloc_sz )
                 => /\ trbuf_offload_done'
                    /\ obs'.cycle.stop /\ obs'.cycle.warn
                    /\ status' = "STOPPING"
                    /\ NoTransfer
            /\ trbuf_offload_done => trbuf_offload_done' /\ NoTransfer
     /\ trbuf_offload_done /\ ~trbuf_offload_done' => InitStep]_vars

\* the overrun of the example: a full buffer read, more than two written
C7_Witness ==
  /\ obs.cycle.warn /\ trbuf_offload_done /\ status = "STOPPING"
  /\ m_rollover_count = 0 /\ m_trbuf_sz = m_trbuf_alloc_sz
  /\ wordcount * TRACE_PACKET_SIZE > 2 * m_trbuf_alloc_sz

(* C8, as the spec states it: window start + window field m_trbuf_sz stay  *)
(* within the allocation.                                                  *)
C8_OffsetPlusSize == m_trbuf_offset + m_trbuf_sz <= m_trbuf_alloc_sz

(* C8, amended: m_trbuf_sz is the end of the window, not its length; the   *)
(* window [m_trbuf_offset, m_trbuf_sz) lies within the allocation, that    *)
(* is offset <= end <= allocation size, after every cycle, for every       *)
(* monotone sequence of word counter values.                               *)
C8_WindowInAllocation ==
  m_trbuf_offset <= m_trbuf_sz /\ m_trbuf_sz <= m_trbuf_alloc_sz

\* a cycle has read the second half of the buffer
C8_Witness ==
  /\ obs.cycle.reader = "s2mm" /\ obs.cycle.syncs = 1
  /\ m_trbuf_offset > 0 /\ m_trbuf_sz = m_trbuf_alloc_sz

(* C9: the rollover counter grows by one in exactly the cycles that, in    *)
(* circular mode, find the window start at the allocation size and wrap it *)
(* to zero; in every other cycle it is unchanged and the window start does *)
(* not move back.                                                          *)
C9_Rollover ==
  [][LET wraps == \E w \in Workers :
                    /\ ReadStep(w) /\ ~hasFIFO
                    /\ ReachesConfig(w)
                    /\ ~trbuf_offload_done
                    /\ wordcount * TRACE_PACKET_SIZE
                         <= m_rollover_count * m_trbuf_alloc_sz + m_trbuf_sz
                              + m_trbuf_alloc_sz
                    /\ m_use_circ_buf
                    /\ m_trbuf_sz = m_trbuf_alloc_sz
     IN  IF wraps
           THEN m_rollover_count' = m_rollover_count + 1 /\ m_trbuf_offset' = 0
           ELSE m_rollover_count' = m_rollover_count
                  /\ m_trbuf_offset' >= m_trbuf_offset]_vars

\* a cycle has just wrapped the window
C9_Witness ==
  /\ obs.cycle.reader = "s2mm" /\ obs.cycle.syncs = 1
  /\ m_rollover_count = 1 /\ m_trbuf_offset = 0 /\ m_trbuf_sz > 0

(* C10: with the FIFO reader, once m_trbuf_full is set every read cycle,   *)
(* the final forced one too, reads nothing from the device and hands       *)
(* nothing to the sink, and the latch stays set until read_trace_init.     *)
C10_FifoFullLatch ==
  [][/\ \A w \in Workers :
          ReadStep(w) /\ hasFIFO /\ m_trbuf_full =>
            NoTransfer /\ fifo' = fifo /\ m_trbuf_full'
     /\ hasFIFO /\ m_trbuf_full /\ ~m_trbuf_full' => InitStep]_vars

\* a cycle has left packets in the FIFO because the latch is set
C10_Witness ==
  /\ hasFIFO /\ m_trbuf_full /\ fifo > 0
  /\ obs.cycle.reader = "fifo" /\ obs.cycle.devReads = 0

(* C11: a non-forced cycle of the stream reader that finds less than       *)
(* TS2MM_MIN_READ_SIZE bytes written since the last cycle that was not     *)
(* skipped makes no sync and no sink call and leaves the window, the       *)
(* rollover counter and the remembered word counter as they are; what is   *)
(* written adds up over skipped cycles, and the first cycle that finds the *)
(* threshold reached remembers the word counter and, unless a latch, an    *)
(* overrun or the end of a non-circular buffer stops it or its sync fails, *)
(* hands the sink one batch: from no later than the first byte written     *)
(* since the last cycle that was not skipped, to the last byte written or  *)
(* the end of the buffer.                                                  *)
C11_ThresholdSkip ==
  [][\A w \in Workers :
       wpc[w] = "read" /\ wpc'[w] # "read" /\ ~hasFIFO =>
         LET waiting == (wordcount - m_wordcount_old) * TRACE_PACKET_SIZE
             written == wordcount * TRACE_PACKET_SIZE
             buffer_end == (m_rollover_count' + 1) * m_trbuf_alloc_sz
             from == m_rollover_count' * m_trbuf_alloc_sz + obs'.cycle.syncOff
             to == from + obs'.cycle.syncLen
             stopped == \/ trbuf_offload_done
                        \/ written > m_rollover_count * m_trbuf_alloc_sz + m_trbuf_sz
                                       + m_trbuf_alloc_sz
                        \/ m_trbuf_sz = m_trbuf_alloc_sz /\ ~m_use_circ_buf
         IN  IF waiting < TS2MM_MIN_READ_SIZE
               THEN /\ NoTransfer
                    /\ UNCHANGED <<m_trbuf_offset, m_trbuf_sz, m_rollover_count,
                                   m_wordcount_old>>
               ELSE /\ m_wordcount_old' = wordcount
                    /\ obs'.cycle.syncs = IF stopped THEN 0 ELSE 1
                    /\ obs'.cycle.sinkCalls = obs'.cycle.parses
                    /\ obs'.cycle.parses <= obs'.cycle.syncs
                    /\ obs'.cycle.sinkCalls = 1 =>
                         /\ from <= m_wordcount_old * TRACE_PACKET_SIZE
                         /\ to = IF written < buffer_end THEN written ELSE buffer_end
                         /\ obs'.cycle.delivered = to - from]_vars

\* a cycle has been skipped with 32 words waiting
C11_Witness ==
  /\ obs.cycle.skip /\ ~obs.cycle.force
  /\ m_wordcount_old = 0 /\ wordcount = 32
  /\ m_trbuf_sz = 0 /\ obs.cycle.syncs = 0

(* C12: in a session of the stream reader without circular buffer, once a  *)
(* cycle of the polling loop has brought the window end to the allocation  *)
(* size, the "done" latch is eventually set (not held against the claim: a *)
(* process ended by std::terminate, an object that has been destroyed).    *)
C12_ExhaustionStops ==
  ( /\ ~hasFIFO /\ m_initialized /\ ~m_use_circ_buf
    /\ m_trbuf_sz = m_trbuf_alloc_sz
    /\ status = "RUNNING"
    /\ \E w \in Workers : wpc[w] = "sleep" /\ obs.cycle.sinkCalls = 1 )
    ~> (trbuf_offload_done \/ ~Running)

(* C13: clockTraining is called in every session before the session's      *)
(* first trace read, the final forced read included: a worker that makes a *)
(* read cycle has called clockTraining before.                             *)
C13_TrainedBeforeRead ==
  [][\A w \in Workers : ReadStep(w) => w \in obs.trained]_vars

(* C14: a trace-offload worker calls offload_finished, which records       *)
(* STOPPED, when since its last sleep it has made one forced read and then *)
(* one read_trace_end and nothing else; only a worker's offload_finished   *)
(* records STOPPED; and after its read_trace_end a worker makes no read.   *)
C14_FinalOrder ==
  [][/\ \A w \in Workers :
          wtype[w] = "TRACE" /\ wpc[w] # "exited" /\ wpc'[w] = "exited" =>
            wpc[w] = "finish" /\ obs.tail[w] = <<"forced_read", "end">>
     /\ status # "STOPPED" /\ status' = "STOPPED" =>
          \E w \in Workers : wpc[w] = "finish" /\ wpc'[w] = "exited"
     /\ \A w \in Workers :
          (\E i \in 1 .. Len(obs.tail[w]) : obs.tail[w][i] = "end") =>
            obs'.tail[w] = obs.tail[w] /\ ~ReadStep(w)]_vars

\* a trace-offload worker has recorded STOPPED and returned
C14_Witness ==
  \E w \in Workers :
    /\ wtype[w] = "TRACE" /\ wpc[w] = "exited" /\ status = "STOPPED"
    /\ obs.tail[w] = <<"forced_read", "end">>

(* C15: a cycle of the stream reader whose sync returns no host buffer     *)
(* hands nothing to the sink, sets no latch and requests no stop; in the    *)
(* polling loop, where a next cycle follows, it leaves the bytes of its    *)
(* window to be read again: they do not count as read, so that the next    *)
(* window starts where the failed one started.                             *)
C15_SyncFailureRetried ==
  [][\A w \in Workers :
       ReadStep(w) /\ ~hasFIFO /\ obs'.cycle.syncs = 1 /\ obs'.cycle.parses = 0 =>
         /\ obs'.cycle.sinkCalls = 0 /\ obs'.cycle.delivered = 0
         /\ m_trbuf_full' = m_trbuf_full
         /\ trbuf_offload_done' = trbuf_offload_done
         /\ ~obs'.cycle.stop /\ status' = status
         /\ wpc[w] = "read" => BytesRead' = BytesRead]_vars

(* C16: over any sequence of read_trace_init, read_trace_end and           *)
(* reset_s2mm calls, the number of trace buffers allocated and not yet     *)
(* freed is one while the controller holds a buffer handle and zero while  *)
(* it holds none: no buffer is freed twice, none is freed when none is     *)
(* held, and none is left allocated when the next one is allocated.        *)
C16_FreedOnce == obs.bufs = IF m_trbuf # 0 THEN 1 ELSE 0

(* a re-initialization that found a buffer, freed it and allocated the next *)
C16_Witness ==
  /\ obs.drv.inits = 2 /\ obs.drv.frees = 1 /\ obs.drv.allocs = 1
  /\ obs.bufs = 1 /\ m_trbuf # 0

C18_SyncRange ==
  obs.cycle.reader = "s2mm" /\ obs.cycle.syncs = 1 /\ ~obs.drv.rewound =>
    /\ 0 <= m_trbuf_offset /\ m_trbuf_offset <= m_trbuf_sz
    /\ m_trbuf_sz <= m_trbuf_alloc_sz
    /\ obs.cycle.syncOff = m_trbuf_offset
    /\ obs.cycle.syncLen = m_trbuf_sz - m_trbuf_offset
    /\ obs.cycle.syncOff + obs.cycle.syncLen <= m_trbuf_alloc_sz

\* a cycle has synced the rest of the buffer, from inside it to its end
C18_Witness ==
  /\ obs.cycle.reader = "s2mm" /\ obs.cycle.syncs = 1 /\ ~obs.drv.rewound
  /\ obs.cycle.syncOff > 0 /\ obs.cycle.syncLen > 0
  /\ obs.cycle.syncOff + obs.cycle.syncLen = m_trbuf_alloc_sz

(* C19: in circular mode, in a controller's first session, with no sync    *)
(* failure and the overrun latch clear, a forced read leaves the sink with *)
(* every byte the device had written when the read sampled the word        *)
(* counter (line 201, kept in m_wordcount_old), handed over in contiguous  *)
(* ranges in write order.                                                  *)
C19_ForcedReadDeliversAll ==
  ( /\ obs.cycle.reader = "s2mm" /\ obs.cycle.force
    /\ m_use_circ_buf /\ m_trbuf # 0
    /\ obs.drv.inits = 1 /\ ~obs.drv.rewound
    /\ ~obs.drv.syncFailed /\ ~trbuf_offload_done ) =>
      /\ ~obs.drv.gap
      /\ obs.drv.prefix = m_wordcount_old * TRACE_PACKET_SIZE

(* C20: a read_trace_init that succeeds on a controller that has been      *)
(* initialized before leaves the reader state a newly constructed          *)
(* controller has after the same call: both latches clear, the window      *)
(* [0, 0), rollover counter and remembered word counter zero, and circular *)
(* mode on exactly when this call's argument and the device ask for it.    *)
C20_FreshSession ==
  [][\A circ_buf \in BOOLEAN :
       CallInit(circ_buf) /\ obs.drv.inits >= 1 /\ m_initialized' =>
         /\ ~m_trbuf_full' /\ ~trbuf_offload_done'
         /\ m_trbuf_offset' = 0 /\ m_trbuf_sz' = 0
         /\ m_rollover_count' = 0 /\ m_wordcount_old' = 0
         /\ ~hasFIFO =>
              (m_use_circ_buf' <=>
                 /\ supportsCircBuf /\ circ_buf
                 /\ \/ sleep_interval_ms = 0
                    \/ m_trbuf_alloc_sz * (1000 \div sleep_interval_ms)
                         >= m_circ_buf_min_rate)]_vars

============================================================================
